---- MODULE Spec2Model ----
(***************************************************************************)
(* Model of the shader tool (src/tools/shadertool/ShaderTool.cpp): the     *)
(* declaration scanner ShaderTool::parse, the layout qualifier parser      *)
(* ShaderTool::parseLayout, the type table cTypes, the std140 size and     *)
(* alignment rules and the driver ShaderTool::onRunning.                   *)
(***************************************************************************)
EXTENDS Integers, Sequences, FiniteSets, TLC

VARIABLES
    stage,          \* onRunning: the stage whose parse is running or due
    assertsEnabled, \* the build compiles core_assert_msg in
    pc,             \* position inside parse: "call", "loop", "returned", "aborted"
    ret,            \* value returned by the last parse that returned
    _tok,           \* token cursor: [toks, pos, more]
    uniformBlock,   \* parse: local flag, inside a uniform block
    block,          \* parse: local UniformBlock under construction
    _layout,        \* ShaderTool::_layout
    _shaderStruct,  \* ShaderTool::_shaderStruct
    catalog,        \* which family of inputs the run draws its tokens from
    fed,            \* number of input chunks handed to the scanner so far
    hist,           \* history: what the scanner did in its last steps
    calc,           \* memory layout calculator: the member and its results
    lookup,         \* type lookup: two keywords and the Types getType gave
    gen             \* generateSrc: the files written and the exit code

vars == <<stage, assertsEnabled, pc, ret, _tok,
          uniformBlock, block, _layout, _shaderStruct, catalog, fed, hist, calc,
          lookup, gen>>

(***************************************************************************)
(* Bounds                                                                  *)
(***************************************************************************)
MaxChunks == 3      \* declarations handed to the scanner in one run
MaxArraySize == 3   \* largest array size of a member given to the calculator

(***************************************************************************)
(* Type table                                                              *)
(***************************************************************************)
T(type, components, ctype, glsltype) ==
    [type |-> type, components |-> components, ctype |-> ctype, glsltype |-> glsltype]

cTypes == <<
    T("DOUBLE",               1, "double",             "double"),
    T("FLOAT",                1, "float",              "float"),
    T("UNSIGNED_INT",         1, "uint32_t",           "uint"),
    T("BOOL",                 1, "bool",               "bool"),
    T("INT",                  1, "int32_t",            "int"),
    T("BVEC2",                2, "glm::bvec2",         "bvec2"),
    T("BVEC3",                3, "glm::bvec3",         "bvec3"),
    T("BVEC4",                4, "glm::bvec4",         "bvec4"),
    T("DVEC2",                2, "glm::dvec2",         "dvec2"),
    T("DVEC3",                3, "glm::dvec3",         "dvec3"),
    T("DVEC4",                4, "glm::dvec4",         "dvec4"),
    T("UVEC2",                2, "glm::uvec2",         "uvec2"),
    T("UVEC3",                3, "glm::uvec3",         "uvec3"),
    T("UVEC4",                4, "glm::uvec4",         "uvec4"),
    T("IVEC2",                2, "glm::ivec2",         "ivec2"),
    T("IVEC3",                3, "glm::ivec3",         "ivec3"),
    T("IVEC4",                4, "glm::ivec4",         "ivec4"),
    T("VEC2",                 2, "glm::vec2",          "vec2"),
    T("VEC3",                 3, "glm::vec3",          "vec3"),
    T("VEC4",                 4, "glm::vec4",          "vec4"),
    T("MAT2",                 1, "glm::mat2",          "mat2"),
    T("MAT3",                 1, "glm::mat3",          "mat3"),
    T("MAT4",                 1, "glm::mat4",          "mat4"),
    T("MAT3X4",               1, "glm::mat3x4",        "mat3x4"),
    T("MAT4X3",               1, "glm::mat4x3",        "mat4x3"),
    T("SAMPLER1D",            1, "video::TextureUnit", "sampler1D"),
    T("SAMPLER2D",            1, "video::TextureUnit", "sampler2D"),
    T("SAMPLER2DARRAY",       1, "video::TextureUnit", "sampler2DArray"),
    T("SAMPLER2DARRAYSHADOW", 1, "video::TextureUnit", "sampler2DArrayShadow"),
    T("SAMPLER3D",            1, "video::TextureUnit", "sampler3D"),
    T("SAMPLERCUBEMAP",       1, "video::TextureUnit", "samplerCube"),
    T("SAMPLER1DSHADOW",      1, "video::TextureUnit", "sampler1DShadow"),
    T("SAMPLER2DSHADOW",      1, "video::TextureUnit", "sampler2DShadow") >>

\* Variable::MAX
MAX == Len(cTypes)

\* the values of enum Variable::Type
Types == {cTypes[i].type : i \in 1..MAX}

\* the enum value of a Type, used to index cTypes (cTypes[v.type])
TypeIndex(type) == CHOOSE i \in 1..MAX : cTypes[i].type = type

PrimitiveTypeStr == <<"", "points", "lines", "lines_adjacency", "triangles",
                      "triangles_adjacency", "line_strip", "triangle_strip">>

\* core::string::toInt: the number a token spells, 0 for a token that spells none
Digits == <<"0", "1", "2", "3", "4", "5">>
toInt(s) == IF \E n \in 1..Len(Digits) : Digits[n] = s
            THEN (CHOOSE n \in 1..Len(Digits) : Digits[n] = s) - 1
            ELSE 0

(***************************************************************************)
(* Layout record                                                           *)
(***************************************************************************)
DefaultLayout == [
    blockLayout |-> "unknown", location |-> -1, offset |-> 0, components |-> 0,
    index |-> 0, binding |-> 0, transformFeedbackBuffer |-> -1,
    transformFeedbackOffset |-> -1, tesselationVertices |-> -1,
    maxGeometryVertices |-> -1, originUpperLeft |-> FALSE,
    pixelCenterInteger |-> FALSE, earlyFragmentTests |-> FALSE,
    primitiveType |-> 0 ]

(***************************************************************************)
(* Token cursor                                                            *)
(***************************************************************************)
\* The cursor holds the tokens of the stream that the scanner has been handed
\* so far and the number of them it has consumed; eof records that the scanner
\* has been told that the stream is at its end (no token is added after that).
hasNext(t) == t.pos < Len(t.toks)
\* the token next() returns and peekNext() looks at
cur(t) == IF hasNext(t) THEN t.toks[t.pos + 1] ELSE ""
next(t) == [t EXCEPT !.pos = @ + 1]
prev(t) == [t EXCEPT !.pos = @ - 1]
\* a call of hasNext() or peekNext(): at the end of the stream the scanner learns it
seen(t) == [t EXCEPT !.eof = @ \/ ~hasNext(t)]

(***************************************************************************)
(* parseLayout                                                             *)
(***************************************************************************)
layoutPrimitiveType(token) ==
    IF \E i \in 2..Len(PrimitiveTypeStr) : PrimitiveTypeStr[i] = token
    THEN (CHOOSE i \in 2..Len(PrimitiveTypeStr) : PrimitiveTypeStr[i] = token) - 1
    ELSE 0

\* the value of a `key = value` qualifier: the text after the key was read
\*   core_assert_always(_tok.hasNext() && _tok.next() == "=");
\*   if (!_tok.hasNext()) return false;
\*   field = convert(_tok.next());
\* ret: "go" (value stored), "false" (returned false), "abort" (assertion failed)
layoutValue(t, lay, field, isPrimitive) ==
    IF ~hasNext(t) THEN [tok |-> seen(t), layout |-> lay, ret |-> "abort"]
    ELSE IF cur(t) # "=" THEN [tok |-> next(t), layout |-> lay, ret |-> "abort"]
    ELSE LET t1 == next(t) IN
         IF ~hasNext(t1) THEN [tok |-> seen(t1), layout |-> lay, ret |-> "false"]
         ELSE [tok |-> next(t1),
               layout |-> [lay EXCEPT ![field] =
                              IF isPrimitive THEN layoutPrimitiveType(cur(t1))
                              ELSE toInt(cur(t1))],
               ret |-> "go"]

\* one pass of the do-while loop of parseLayout: the key `token` was read
layoutKey(token, t, lay) ==
    IF token = "std140" THEN
        [tok |-> t, layout |-> [lay EXCEPT !.blockLayout = "std140"], ret |-> "go"]
    ELSE IF token = "std430" THEN
        [tok |-> t, layout |-> [lay EXCEPT !.blockLayout = "std430"], ret |-> "go"]
    ELSE IF token = "location" THEN layoutValue(t, lay, "location", FALSE)
    ELSE IF token = "offset" THEN layoutValue(t, lay, "offset", FALSE)
    ELSE IF token = "compontents" THEN layoutValue(t, lay, "components", FALSE)
    ELSE IF token = "index" THEN layoutValue(t, lay, "index", FALSE)
    ELSE IF token = "binding" THEN layoutValue(t, lay, "binding", FALSE)
    ELSE IF token = "xfb_buffer" THEN layoutValue(t, lay, "transformFeedbackBuffer", FALSE)
    ELSE IF token = "xfb_offset" THEN layoutValue(t, lay, "transformFeedbackOffset", FALSE)
    ELSE IF token = "vertices" THEN layoutValue(t, lay, "tesselationVertices", FALSE)
    ELSE IF token = "max_vertices" THEN layoutValue(t, lay, "maxGeometryVertices", FALSE)
    ELSE IF token = "origin_upper_left" THEN
        [tok |-> t, layout |-> [lay EXCEPT !.originUpperLeft = TRUE], ret |-> "go"]
    ELSE IF token = "pixel_center_integer" THEN
        [tok |-> t, layout |-> [lay EXCEPT !.pixelCenterInteger = TRUE], ret |-> "go"]
    ELSE IF token = "early_fragment_tests" THEN
        [tok |-> t, layout |-> [lay EXCEPT !.earlyFragmentTests = TRUE], ret |-> "go"]
    ELSE IF token = "primitive_type" THEN layoutValue(t, lay, "primitiveType", TRUE)
    ELSE [tok |-> t, layout |-> lay, ret |-> "go"]

RECURSIVE layoutLoop(_, _)
layoutLoop(t, lay) ==
    IF ~hasNext(t) THEN [tok |-> seen(t), layout |-> lay, ret |-> "false"]
    ELSE LET token == cur(t)
             r == layoutKey(token, next(t), lay)
         IN  IF r.ret # "go" THEN r
             ELSE IF token # ")" THEN layoutLoop(r.tok, r.layout)
             ELSE [tok |-> r.tok, layout |-> r.layout, ret |-> "true"]

\* parseLayout that returns after the first key of the qualifier
parseLayoutOneKey(t, lay) ==
    IF ~hasNext(t) THEN [tok |-> seen(t), layout |-> lay, ret |-> "false"]
    ELSE IF cur(t) # "(" THEN [tok |-> next(t), layout |-> lay, ret |-> "false"]
    ELSE IF ~hasNext(next(t)) THEN [tok |-> seen(next(t)), layout |-> lay, ret |-> "false"]
    ELSE [layoutKey(cur(next(t)), next(next(t)), lay) EXCEPT
             !.ret = IF @ = "go" THEN "true" ELSE @]

\* parseLayout that starts every qualifier from the default record
parseLayoutFresh(t, lay) ==
    IF ~hasNext(t) THEN [tok |-> seen(t), layout |-> lay, ret |-> "false"]
    ELSE IF cur(t) # "(" THEN [tok |-> next(t), layout |-> lay, ret |-> "false"]
    ELSE layoutLoop(next(t), DefaultLayout)

\* ret: "true", "false", or "abort" when a core_assert_always fails
parseLayout(t, lay) ==
    IF ~hasNext(t) THEN [tok |-> seen(t), layout |-> lay, ret |-> "false"]
    ELSE IF cur(t) # "(" THEN [tok |-> next(t), layout |-> lay, ret |-> "false"]
    ELSE layoutLoop(next(t), lay)

(***************************************************************************)
(* Memory layout calculator                                                *)
(***************************************************************************)
Variable(type, name, arraySize) == [type |-> type, name |-> name, arraySize |-> arraySize]

USE_ALIGN_AS == 1

std140Align(v) ==
    LET cType == cTypes[TypeIndex(v.type)] IN
    IF USE_ALIGN_AS > 0 /\ cType.type \in {"VEC2", "VEC3", "VEC4", "DVEC2", "DVEC3", "DVEC4",
                                          "IVEC2", "IVEC3", "IVEC4", "BVEC2", "BVEC3", "BVEC4"}
    THEN "alignas(16) "
    ELSE IF USE_ALIGN_AS > 0 /\ cType.type \in {"FLOAT", "DOUBLE"}
    THEN "alignas(4) "
    ELSE ""

\* the padding member after v and the counter `padding` after the call
std140Padding(v, padding) ==
    LET cType == cTypes[TypeIndex(v.type)] IN
    IF USE_ALIGN_AS = 0 /\ cType.type \in {"VEC3", "DVEC3", "IVEC3", "BVEC3"}
    THEN [text |-> "float _padding", n |-> padding, padding |-> padding + 1]
    ELSE [text |-> "", n |-> padding, padding |-> padding]

\* std140Size with the 8-byte unit given to double only
std140SizeDoubleOnly(v) ==
    LET cType == cTypes[TypeIndex(v.type)]
        bytes == IF cType.type = "DOUBLE" THEN 8 ELSE 4
        c0 == cType.components
        c1 == IF cType.type \in {"VEC2", "DVEC2", "IVEC2", "BVEC2"} THEN 2 ELSE c0
        c2 == IF cType.type \in {"VEC3", "DVEC3", "IVEC3", "BVEC3"} THEN 4 ELSE c1
        components ==
            IF cType.type = "MAT2" THEN 4
            ELSE IF cType.type = "MAT3" THEN 9
            ELSE IF cType.type = "MAT4" THEN 16
            ELSE IF cType.type = "MAT3X4" THEN 16
            ELSE IF cType.type = "MAT4X3" THEN 16
            ELSE c2
    IN  IF v.arraySize > 0 THEN components * bytes * v.arraySize
        ELSE components * bytes

std140Size(v) ==
    LET cType == cTypes[TypeIndex(v.type)]
        bytes == IF cType.type \in {"DVEC2", "DVEC3", "DVEC4", "DOUBLE"} THEN 8 ELSE 4
        c0 == cType.components
        c1 == IF cType.type \in {"VEC2", "DVEC2", "IVEC2", "BVEC2"} THEN 2 ELSE c0
        c2 == IF cType.type \in {"VEC3", "DVEC3", "IVEC3", "BVEC3"} THEN 4 ELSE c1
        components ==
            IF cType.type = "MAT2" THEN 4
            ELSE IF cType.type = "MAT3" THEN 9
            ELSE IF cType.type = "MAT4" THEN 16
            ELSE IF cType.type = "MAT3X4" THEN 16
            ELSE IF cType.type = "MAT4X3" THEN 16
            ELSE c2
    IN  IF v.arraySize > 0 THEN components * bytes * v.arraySize
        ELSE components * bytes

std430Align(v) == std140Align(v)
std430Size(v) == std140Size(v)
std430Padding(v, padding) == std140Padding(v, padding)

typeAlign(v, lay) ==
    IF lay.blockLayout = "std430" THEN std430Align(v) ELSE std140Align(v)

typeSize(v, lay) ==
    IF lay.blockLayout = "std430" THEN std430Size(v) ELSE std140Size(v)

typePadding(v, padding, lay) ==
    IF lay.blockLayout = "std430" THEN std430Padding(v, padding)
    ELSE std140Padding(v, padding)

(***************************************************************************)
(* generateSrc: the texts are kept as records of what they hold instead of *)
(* as strings                                                              *)
(***************************************************************************)
\* util::convertName: the name of the structure (firstUpper) or of the buffer
\* member that is made of a shader name
convertName(name, firstUpper) == name

\* one member of `struct Data`: what is written to ub for it
memberLine(v, memberSize, padText, lay) ==
    [align |-> typeAlign(v, lay), ctype |-> cTypes[TypeIndex(v.type)].ctype,
     name |-> convertName(v.name, FALSE),
     arraySize |-> IF v.arraySize > 0 THEN v.arraySize ELSE 0,
     bytes |-> memberSize, padding |-> padText]

\* the members of `struct Data` of one block, from member i on: the lines
\* written to ub, the running structSize and the padding counter
RECURSIVE memberLines(_, _, _, _, _)
memberStep(members, i, structSize, memberSize, pad, lay) ==
    LET rest == memberLines(members, i + 1, structSize + memberSize, pad.padding, lay)
    IN  [lines |-> <<memberLine(members[i], memberSize, pad.text, lay)>> \o rest.lines,
         structSize |-> rest.structSize]

memberLines(members, i, structSize, paddingCnt, lay) ==
    IF i > Len(members) THEN [lines |-> <<>>, structSize |-> structSize]
    ELSE memberStep(members, i, structSize, typeSize(members[i], lay),
                    typePadding(members[i], paddingCnt, lay), lay)

\* the text of one block, given the lines and the structSize of its members:
\* blockText with structSize assigned, not added to, for each member
blockTextLastMember(ubuf, lay, m) ==
    [buffer |-> convertName(ubuf.name, FALSE),
     struct |-> convertName(ubuf.name, TRUE),
     layout |-> IF lay.blockLayout \in {"unknown", "std140"} THEN "std140"
                ELSE IF lay.blockLayout = "std430" THEN "std430"
                ELSE "error",
     members |-> m.lines,
     assertSize |-> IF USE_ALIGN_AS > 0
                    THEN (IF m.lines = <<>> THEN 0 ELSE m.lines[Len(m.lines)].bytes)
                    ELSE -1]

\* what one pass of the loop over the uniform blocks appends to ub, m being
\* the lines and the structSize of the members
blockText(ubuf, lay, m) ==
    [buffer |-> convertName(ubuf.name, FALSE),
     struct |-> convertName(ubuf.name, TRUE),
     layout |-> IF lay.blockLayout \in {"unknown", "std140"} THEN "std140"
                ELSE IF lay.blockLayout = "std430" THEN "std430"
                ELSE "error",
     members |-> m.lines,
     assertSize |-> IF USE_ALIGN_AS > 0 THEN m.structSize ELSE -1]

\* the loop over the uniform blocks from block i on; ub and shutdown are the
\* streams, which live through all passes; failAt is the number of the
\* syswrite that fails (0: none)
RECURSIVE blockLoop(_, _, _, _, _, _, _)
blockStep(blocks, i, ub1, shutdown1, files, lay, failAt) ==
    IF failAt = i THEN [files |-> files, exitCode |-> 100]
    ELSE blockLoop(blocks, i + 1, ub1, shutdown1,
                   Append(files, [file |-> convertName(blocks[i].name, TRUE),
                                  text |-> [name |-> convertName(blocks[i].name, TRUE),
                                            uniformbuffers |-> ub1,
                                            shutdown |-> shutdown1]]),
                   lay, failAt)

blockLoop(blocks, i, ub, shutdown, files, lay, failAt) ==
    IF i > Len(blocks) THEN [files |-> files, exitCode |-> 0]
    ELSE blockStep(blocks, i,
                   Append(ub, blockText(blocks[i], lay,
                                        memberLines(blocks[i].members, 1, 0, 0, lay))),
                   Append(shutdown, convertName(blocks[i].name, FALSE)),
                   files, lay, failAt)

Names(list) == [i \in 1..Len(list) |-> list[i].name]

\* the text of the main file: the lists that replace the template's markers
mainText(ss) ==
    [uniforms |-> Names(ss.uniforms),
     uniformarrayinfo |-> [i \in 1..Len(ss.uniforms) |->
                              <<ss.uniforms[i].name, ss.uniforms[i].arraySize>>],
     attributes |-> [i \in 1..Len(ss.attributes) |->
                        <<ss.attributes[i].name,
                          cTypes[TypeIndex(ss.attributes[i].type)].components>>],
     setters |-> [i \in 1..Len(ss.uniforms) |-> <<"uniform", ss.uniforms[i]>>]
                 \o [i \in 1..Len(ss.attributes) |-> <<"attribute", ss.attributes[i]>>]
                 \o [i \in 1..Len(ss.uniformBlocks) |-> <<"block", ss.uniformBlocks[i].name>>],
     includes |-> [i \in 1..Len(ss.uniformBlocks) |->
                     convertName(ss.uniformBlocks[i].name, TRUE)]]

\* the end of generateSrc: b is what the loop over the blocks left
writeMain(ss, b, failAt) ==
    IF b.exitCode # 0 THEN [files |-> b.files, exitCode |-> b.exitCode, done |-> TRUE]
    ELSE IF failAt = Len(ss.uniformBlocks) + 1
    THEN [files |-> b.files, exitCode |-> 100, done |-> TRUE]
    ELSE [files |-> Append(b.files, [file |-> "Shader", text |-> mainText(ss)]),
          exitCode |-> 0, done |-> TRUE]

generateSrc(ss, lay, failAt) ==
    writeMain(ss, blockLoop(ss.uniformBlocks, 1, <<>>, <<>>, <<>>, lay, failAt), failAt)

(***************************************************************************)
(* parse                                                                   *)
(***************************************************************************)

\* getType returning the Type of the entry after the one that matches
getTypeNext(type, asserts) ==
    IF \E i \in 1..MAX : cTypes[i].glsltype = type
    THEN [type |-> cTypes[((CHOOSE i \in 1..MAX : cTypes[i].glsltype = type) % MAX) + 1].type,
          known |-> TRUE, ret |-> "go"]
    ELSE [type |-> "FLOAT", known |-> FALSE,
          ret |-> IF asserts THEN "abort" ELSE "go"]

\* getType: the Type of a keyword; for a keyword that is in no entry the
\* assertion stops the process where it is compiled in, and FLOAT is returned
\* where it is not
getType(type, asserts) ==
    IF \E i \in 1..MAX : cTypes[i].glsltype = type
    THEN [type |-> cTypes[CHOOSE i \in 1..MAX : cTypes[i].glsltype = type].type,
          known |-> TRUE, ret |-> "go"]
    ELSE [type |-> "FLOAT", known |-> FALSE,
          ret |-> IF asserts THEN "abort" ELSE "go"]

\* targetList with the output marker routed to varyings in every stage
targetListVaryings(token, vertex) ==
    IF token = "$in" THEN (IF vertex THEN "attributes" ELSE "")
    ELSE IF token = "$out" THEN "varyings"
    ELSE IF token = "uniform" THEN "uniforms"
    ELSE ""

\* the list a declaration keyword selects (the pointer v), "" for nullptr
targetList(token, vertex) ==
    IF token = "$in" THEN (IF vertex THEN "attributes" ELSE "")
    ELSE IF token = "$out" THEN (IF vertex THEN "varyings" ELSE "outs")
    ELSE IF token = "uniform" THEN "uniforms"
    ELSE ""

\* findIter that looks at the last entry of the list only
findIterLast(list, name) ==
    IF Len(list) > 0 /\ list[Len(list)].name = name THEN Len(list) ELSE 0

\* std::find_if over a list by name: the index of the first entry of that
\* name, 0 when there is none (v->end())
findIter(list, name) ==
    IF \E i \in 1..Len(list) : list[i].name = name
    THEN CHOOSE i \in 1..Len(list) : list[i].name = name
                                      /\ \A j \in 1..(i - 1) : list[j].name # name
    ELSE 0

\* the state one pass of the scanner loop works on
Scan(t, lay, ub, blk, ss) ==
    [tok |-> t, layout |-> lay, uniformBlock |-> ub, block |-> blk, shaderStruct |-> ss]

\* the result of a pass: the state, how the pass ended ("continue": back to the
\* loop condition, "false": parse returned false, "abort": the process stopped)
\* and what the pass did
Pass(sc, out, ev) ==
    [tok |-> sc.tok, layout |-> sc.layout, uniformBlock |-> sc.uniformBlock,
     block |-> sc.block, shaderStruct |-> sc.shaderStruct, out |-> out, ev |-> ev]

\* the array suffix of a declaration: `[` was seen by peekNext
arraySuffix(t) ==
    LET t1 == next(t)                      \* _tok.next(): the `[`
        number == cur(t1)
        t2 == next(t1)                     \* number = _tok.next()
        t3 == next(t2)                     \* _tok.next() == "]"
        t4 == next(t3)                     \* _tok.next() == ";"
        n == toInt(number)
    IN  IF ~hasNext(t1) THEN [tok |-> seen(t1), arraySize |-> 0, ret |-> "abort"]
        ELSE IF ~hasNext(t2) \/ cur(t2) # "]" THEN [tok |-> seen(t2), arraySize |-> 0, ret |-> "abort"]
        ELSE IF ~hasNext(t3) \/ cur(t3) # ";" THEN [tok |-> seen(t3), arraySize |-> 0, ret |-> "abort"]
        ELSE [tok |-> t4, arraySize |-> IF n = 0 THEN -1 ELSE n, ret |-> "go"]

\* skipping the precision qualifiers: `type` was read, the loop reads on
RECURSIVE precisionLoop(_, _)
precisionLoop(type, t) ==
    IF type \in {"highp", "mediump", "lowp", "precision"}
    THEN IF ~hasNext(t) THEN [type |-> type, tok |-> seen(t), ret |-> "false"]
         ELSE precisionLoop(cur(t), next(t))
    ELSE [type |-> type, tok |-> t, ret |-> "go"]

\* the declaration reader: the part of the loop body after the keyword
\* dispatch, for the selected list v ("" for nullptr)
declaration(sc, v, asserts) ==
    LET t0 == sc.tok IN
    IF ~hasNext(t0) THEN Pass([sc EXCEPT !.tok = seen(t0)], "false", "notype")
    ELSE
    LET type0 == cur(t0)
        t1 == next(t0)
    IN
    IF ~hasNext(t1) THEN Pass([sc EXCEPT !.tok = seen(t1)], "false", "noname")
    ELSE
    LET p == precisionLoop(type0, t1) IN
    IF p.ret = "false" THEN Pass([sc EXCEPT !.tok = p.tok], "false", "notype")
    ELSE IF ~hasNext(p.tok) THEN Pass([sc EXCEPT !.tok = seen(p.tok)], "abort", "pastend")
    ELSE
    LET type == p.type
        name == cur(p.tok)
        t2 == next(p.tok)
    IN
    IF name = "{" THEN
        Pass([sc EXCEPT !.tok = t2, !.uniformBlock = TRUE,
                        !.block = [name |-> type, members |-> <<>>]],
             "continue", "blockopen")
    ELSE
    LET ty == getType(type, asserts) IN
    IF ty.ret = "abort" THEN Pass([sc EXCEPT !.tok = t2], "abort", "unknowntype")
    ELSE
    LET isArray == cur(t2) = "["
        a == IF isArray THEN arraySuffix(t2)
             ELSE [tok |-> seen(t2), arraySize |-> 0, ret |-> "go"]
        var == Variable(ty.type, name, a.arraySize)
    IN
    IF a.ret = "abort" THEN Pass([sc EXCEPT !.tok = a.tok], "abort", "badarray")
    ELSE IF sc.uniformBlock THEN
        Pass([sc EXCEPT !.tok = a.tok, !.block.members = Append(@, var)],
             "continue", IF ty.known THEN "member" ELSE "unknownmember")
    ELSE IF findIter(sc.shaderStruct[v], name) = 0 THEN
        Pass([sc EXCEPT !.tok = a.tok, !.shaderStruct[v] = Append(@, var),
                        !.layout = DefaultLayout],
             "continue", IF ty.known THEN "append" ELSE "unknownappend")
    ELSE Pass([sc EXCEPT !.tok = a.tok], "continue", "duplicate")

\* pass with `buffer` read as a declaration keyword that selects the uniforms
passBufferDeclares(sc, vertex, asserts) ==
    LET token == cur(sc.tok)
        t1 == next(sc.tok)
        s1 == [sc EXCEPT !.tok = t1]
    IN
    IF token \in {"$in", "$out", "uniform"} THEN
        IF targetList(token, vertex) = "" /\ ~sc.uniformBlock
        THEN Pass(s1, "continue", "nolist")
        ELSE declaration(s1, targetList(token, vertex), asserts)
    ELSE IF token = "layout" THEN
        LET r == parseLayout(t1, sc.layout)
            s2 == [sc EXCEPT !.tok = r.tok, !.layout = r.layout]
        IN  IF r.ret = "abort" THEN Pass(s2, "abort", "layoutassert")
            ELSE IF ~sc.uniformBlock
                 THEN Pass(s2, "continue", IF r.ret = "true" THEN "layout" ELSE "layoutfailed")
                 ELSE declaration(s2, "", asserts)
    ELSE IF token = "buffer" THEN
        declaration(s1, "uniforms", asserts)
    ELSE IF sc.uniformBlock THEN
        IF token = "}" THEN
            LET s2 == [sc EXCEPT !.uniformBlock = FALSE,
                                 !.shaderStruct.uniformBlocks = Append(@, sc.block),
                                 !.layout = DefaultLayout]
            IN  IF ~hasNext(t1) \/ cur(t1) # ";"
                THEN Pass([s2 EXCEPT !.tok = seen(t1)], "abort", "blockassert")
                ELSE Pass([s2 EXCEPT !.tok = next(t1)], "continue", "blockclose")
        ELSE declaration([sc EXCEPT !.tok = prev(t1)], "", asserts)
    ELSE Pass(s1, "continue", "skip")

\* one pass of the while loop of parse: the loop condition held
pass(sc, vertex, asserts) ==
    LET token == cur(sc.tok)
        t1 == next(sc.tok)
        s1 == [sc EXCEPT !.tok = t1]
    IN
    IF token \in {"$in", "$out", "uniform"} THEN
        IF targetList(token, vertex) = "" /\ ~sc.uniformBlock
        THEN Pass(s1, "continue", "nolist")
        ELSE declaration(s1, targetList(token, vertex), asserts)
    ELSE IF token = "layout" THEN
        LET r == parseLayout(t1, sc.layout)
            s2 == [sc EXCEPT !.tok = r.tok, !.layout = r.layout]
        IN  IF r.ret = "abort" THEN Pass(s2, "abort", "layoutassert")
            ELSE IF ~sc.uniformBlock
                 THEN Pass(s2, "continue", IF r.ret = "true" THEN "layout" ELSE "layoutfailed")
                 ELSE declaration(s2, "", asserts)
    ELSE IF token = "buffer" THEN
        IF ~sc.uniformBlock THEN Pass(s1, "continue", "buffer")
        ELSE declaration(s1, "", asserts)
    ELSE IF sc.uniformBlock THEN
        IF token = "}" THEN
            LET s2 == [sc EXCEPT !.uniformBlock = FALSE,
                                 !.shaderStruct.uniformBlocks = Append(@, sc.block),
                                 !.layout = DefaultLayout]
            IN  IF ~hasNext(t1) \/ cur(t1) # ";"
                THEN Pass([s2 EXCEPT !.tok = seen(t1)], "abort", "blockassert")
                ELSE Pass([s2 EXCEPT !.tok = next(t1)], "continue", "blockclose")
        ELSE declaration([sc EXCEPT !.tok = prev(t1)], "", asserts)
    ELSE Pass(s1, "continue", "skip")

(***************************************************************************)
(* Inputs: the token streams are handed to the scanner one declaration at  *)
(* a time, each a sequence of preprocessor tokens.                         *)
(***************************************************************************)
DeclChunks == {
    <<"uniform", "float", "a", ";">>,
    <<"uniform", "vec3", "a", "[", "2", "]", ";">>,
    <<"$in", "vec3", "a", ";">>,
    <<"$out", "vec4", "a", ";">>,
    <<"layout", "(", "location", "=", "2", ")", "uniform", "float", "b", ";">>,
    <<"layout", "(", "location", "=", "3", ")", "$in", "vec2", "b", ";">>,
    <<"layout", "(", "binding", "=", "1", ")", "buffer", "B", "{", "float", "d", "[", "]", ";", "}", ";">>,
    <<"buffer", "C", "{", "vec4", "g", ";", "}", ";">> }

ErrorChunks == {
    <<"uniform", "float", "a", ";">>,
    <<"uniform", "vec3", "b", ";">>,
    <<"uniform", "frobnicate", "x", ";">>,
    <<"uniform", "float", "arr", "[", "]", ";">>,
    <<"uniform", "float", "arr", "[", "N", "]", ";">>,
    <<"uniform", "float", "arr", "[", "0", "]", ";">>,
    <<"uniform", "float", "c", "[", "2", "]", ";">> }

LayoutChunks == {
    <<"layout", "(", "location", "=", "2", ")">>,
    <<"layout", "(", "binding", "=", "1", ")">>,
    <<"layout", "(", "location", "=", "3", ",", "binding", "=", "2", ")">>,
    <<"layout", "(", "std140", ",", "offset", "=", "4", ")">>,
    <<"layout", "(", "std430", ")">>,
    <<"layout", "(", "origin_upper_left", ",", "index", "=", "1", ")">>,
    <<"uniform", "sampler2D", "tex", ";">> }

BlockChunks == {
    <<"uniform", "Blk", "{", "float", "a", ";", "vec3", "b", ";", "}", ";">>,
    <<"uniform", "Blk", "{", "float", "a", "[", "2", "]", ";", "vec3", "b", "[", "2", "]", ";", "}", ";">>,
    <<"uniform", "Mat", "{", "vec4", "c", "[", "3", "]", ";", "}", ";">>,
    <<"uniform", "One", "{", "mat4", "m", ";", "}", ";">>,
    <<"uniform", "Dup", "{", "vec4", "c", "[", "2", "]", ";", "vec3", "c", "[", "2", "]", ";", "}", ";">>,
    <<"uniform", "Empty", "{", "}", ";">>,
    <<"uniform", "float", "a", ";">> }

\* streams that end in the middle of a declaration, and malformed qualifiers
TruncChunks == {
    <<"uniform", "float", "a", ";">>,
    <<"uniform", "float">>,
    <<"uniform", "Cut", "{">>,
    <<"uniform", "Cut", "{", "vec4", "c">>,
    <<"uniform", "Cut", "{", "vec4", "c", "[">>,
    <<"uniform", "Cut", "{", "vec4", "c", "[", "3", "]", ";">>,
    <<"layout", "(", "location", "=", "2">>,
    <<"layout", "(", "location", "2", ")">>,
    <<"layout", "(", "binding">>,
    <<"layout", "uniform", "float", "e", ";">>,
    <<"layout", "std140", "uniform", "float", "f", ";">> }

\* qualifiers of one key each: keys of the GLSL grammar and keys of no grammar
KeyChunks == {
    <<"layout", "(", "components", "=", "2", ")">>,
    <<"layout", "(", "vertices", "=", "3", ")">>,
    <<"layout", "(", "xfb_offset", "=", "4", ")">>,
    <<"layout", "(", "early_fragment_tests", ")">>,
    <<"layout", "(", "std430", ")">>,
    <<"layout", "(", "foo", ")">>,
    <<"layout", "(", "foo", "=", "5", ")">>,
    <<"layout", "(", "foo", "=", "std430", ")">>,
    <<"uniform", "float", "a", ";">> }

\* blocks whose members are read after a step back, and qualifiers with a `)`
\* as a key and as a value
TermChunks == {
    <<"uniform", "Mat", "{", "vec4", "c", "[", "3", "]", ";", "}", ";">>,
    <<"layout", "(", "std140", ")", "uniform", "Blk", "{", "float", "a", "[", "2", "]", ";",
      "vec3", "b", "[", "2", "]", ";", "}", ";">>,
    <<"layout", "(", "std430", ")", "uniform", "S", "{", "vec4", "d", "[", "2", "]", ";", "}", ";">>,
    <<"layout", "(", "location", "=", ")", "uniform", "float", "a", ";">>,
    <<"layout", "(", "location", "=", "2", ")", "$in", "vec3", "p", ";">>,
    <<"uniform", "float", "a", ";">> }

Chunks(c) == IF c = "decl" THEN DeclChunks
             ELSE IF c = "error" THEN ErrorChunks
             ELSE IF c = "layout" THEN LayoutChunks
             ELSE IF c = "block" THEN BlockChunks
             ELSE IF c = "trunc" THEN TruncChunks
             ELSE IF c = "keys" THEN KeyChunks
             ELSE IF c = "term" THEN TermChunks
             ELSE {}

(***************************************************************************)
(* State                                                                   *)
(***************************************************************************)
NoTokens == [toks |-> <<>>, pos |-> 0, eof |-> FALSE]
NoBlock == [name |-> "", members |-> <<>>]
NoStruct == [attributes |-> <<>>, varyings |-> <<>>, outs |-> <<>>,
             uniforms |-> <<>>, uniformBlocks |-> <<>>]
NoCalc == [v |-> Variable("FLOAT", "", 0), size |-> -1, align |-> "none",
           padding |-> "none"]
\* ev: what the last pass of the scanner did; qual: a layout qualifier was
\* scanned after the last declaration keyword; decl: a declaration keyword was
\* scanned before; before: the model when the stage's parse was called
\* prev: the chunks of the stream of the stage parsed before; cur: the chunks
\* of the stream of this stage so far
NoHist == [ev |-> "none", qual |-> FALSE, decl |-> FALSE, before |-> NoStruct,
           prev |-> <<>>, cur |-> <<>>]
NoLookup == [k1 |-> "", k2 |-> "", t1 |-> "none", t2 |-> "none"]
NoGen == [files |-> <<>>, exitCode |-> 0, done |-> FALSE]

Lists == {"attributes", "varyings", "outs", "uniforms"}
DeclKeywords == {"$in", "$out", "uniform", "buffer"}

InitRun(c) ==
    /\ stage = "fragment"
    /\ assertsEnabled \in BOOLEAN
    /\ pc = "call"
    /\ ret = "none"
    /\ _tok = NoTokens
    /\ uniformBlock = FALSE
    /\ block = NoBlock
    /\ _layout = DefaultLayout
    /\ _shaderStruct = NoStruct
    /\ catalog = c
    /\ fed = 0
    /\ hist = NoHist
    /\ calc = NoCalc
    /\ lookup = NoLookup
    /\ gen = NoGen

Init == InitRun("decl")
InitError == InitRun("error")
InitLayout == InitRun("layout")
InitBlock == InitRun("block")
InitTrunc == InitRun("trunc")
InitKeys == InitRun("keys")
InitTerm == InitRun("term")

(***************************************************************************)
(* Actions of the scanner and of the driver                                *)
(***************************************************************************)
\* parse is called for the stage: the locals and the cursor are set up
ParseCall ==
    /\ pc = "call"
    /\ stage \in {"fragment", "geometry", "compute", "vertex"}
    /\ pc' = "loop"
    /\ _tok' = NoTokens
    /\ uniformBlock' = FALSE
    /\ block' = NoBlock
    /\ hist' = [hist EXCEPT !.ev = "call", !.before = _shaderStruct,
                            !.prev = hist.cur, !.cur = <<>>]
    /\ UNCHANGED <<stage, assertsEnabled, ret, _layout, _shaderStruct, catalog, fed, calc, lookup, gen>>

\* the stream of the stage goes on with one more declaration
Feed ==
    /\ pc = "loop"
    /\ ~hasNext(_tok)
    /\ ~_tok.eof
    /\ fed < MaxChunks
    /\ \E c \in Chunks(catalog) :
          /\ _tok' = [toks |-> c, pos |-> 0, eof |-> FALSE]
          /\ hist' = [hist EXCEPT !.ev = "feed", !.cur = Append(@, c)]
    /\ fed' = fed + 1
    /\ UNCHANGED <<stage, assertsEnabled, pc, ret, uniformBlock, block, _layout,
                   _shaderStruct, catalog, calc, lookup, gen>>

\* one pass of the while loop of parse
ParsePass ==
    /\ pc = "loop"
    /\ hasNext(_tok)
    /\ LET token == cur(_tok)
           r == pass(Scan(_tok, _layout, uniformBlock, block, _shaderStruct),
                     stage = "vertex", assertsEnabled)
       IN  /\ _tok' = r.tok
           /\ _layout' = r.layout
           /\ uniformBlock' = r.uniformBlock
           /\ block' = r.block
           /\ _shaderStruct' = r.shaderStruct
           /\ pc' = IF r.out = "continue" THEN "loop"
                    ELSE IF r.out = "false" THEN "returned" ELSE "aborted"
           /\ ret' = IF r.out = "false" THEN "false" ELSE ret
           /\ hist' = [hist EXCEPT
                         !.ev = r.ev,
                         !.qual = IF token = "layout" THEN TRUE
                                  ELSE IF token \in DeclKeywords THEN FALSE ELSE @,
                         !.decl = @ \/ token \in DeclKeywords]
    /\ UNCHANGED <<stage, assertsEnabled, catalog, fed, calc, lookup, gen>>

\* the loop condition fails: the stream of the stage is at its end
ParseReturn ==
    /\ pc = "loop"
    /\ ~hasNext(_tok)
    /\ pc' = "returned"
    /\ ret' = IF uniformBlock THEN "false" ELSE "true"
    /\ _tok' = seen(_tok)
    /\ hist' = [hist EXCEPT !.ev = "return"]
    /\ UNCHANGED <<stage, assertsEnabled, uniformBlock, block, _layout,
                   _shaderStruct, catalog, fed, calc, lookup, gen>>

\* NextStage with the compute stage parsed before the geometry stage
NextStageComputeFirst ==
    /\ pc = "returned"
    /\ stage \in {"fragment", "geometry", "compute"}
    /\ \E hasGeometry, hasCompute \in BOOLEAN :
          stage' = IF stage = "fragment" /\ hasCompute THEN "compute"
                   ELSE IF stage \in {"fragment", "compute"} /\ hasGeometry THEN "geometry"
                   ELSE "vertex"
    /\ pc' = "call"
    /\ hist' = [hist EXCEPT !.ev = "stage"]
    /\ UNCHANGED <<assertsEnabled, ret, _tok, uniformBlock, block, _layout,
                   _shaderStruct, catalog, fed, calc, lookup, gen>>

\* onRunning goes on after a parse has returned: the geometry and the compute
\* stage are parsed when their buffers are not empty, the vertex stage last
NextStage ==
    /\ pc = "returned"
    /\ stage \in {"fragment", "geometry", "compute"}
    /\ \E hasGeometry, hasCompute \in BOOLEAN :
          stage' = IF stage = "fragment" /\ hasGeometry THEN "geometry"
                   ELSE IF stage \in {"fragment", "geometry"} /\ hasCompute THEN "compute"
                   ELSE "vertex"
    /\ pc' = "call"
    /\ hist' = [hist EXCEPT !.ev = "stage"]
    /\ UNCHANGED <<assertsEnabled, ret, _tok, uniformBlock, block, _layout,
                   _shaderStruct, catalog, fed, calc, lookup, gen>>

\* onRunning calls generateSrc after the parse of the vertex stage, whatever
\* the parses returned; a syswrite may fail
GenerateSrc ==
    /\ pc = "returned"
    /\ stage = "vertex"
    /\ stage' = "generated"
    /\ \E failAt \in 0..(Len(_shaderStruct.uniformBlocks) + 1) :
          gen' = generateSrc(_shaderStruct, _layout, failAt)
    /\ hist' = [hist EXCEPT !.ev = "generate"]
    /\ UNCHANGED <<assertsEnabled, pc, ret, _tok, uniformBlock, block, _layout,
                   _shaderStruct, catalog, fed, calc, lookup>>

(***************************************************************************)
(* The calculator on its own: one member of a uniform block, of any type   *)
(* and array size, under any block layout mode                             *)
(***************************************************************************)
InitCalc ==
    /\ stage = "generate"
    /\ assertsEnabled \in BOOLEAN
    /\ pc = "members"
    /\ ret = "true"
    /\ _tok = NoTokens
    /\ uniformBlock = FALSE
    /\ block = NoBlock
    /\ \E b \in {"unknown", "std140", "std430"} :
          _layout = [DefaultLayout EXCEPT !.blockLayout = b]
    /\ _shaderStruct = NoStruct
    /\ catalog = "none"
    /\ fed = 0
    /\ hist = NoHist
    /\ \E t \in Types, n \in -1..MaxArraySize :
          calc = [NoCalc EXCEPT !.v = Variable(t, "m", n)]
    /\ lookup = NoLookup
    /\ gen = NoGen

\* generateSrc, for a member of a block: typeAlign(v)
TypeAlign ==
    /\ pc = "members"
    /\ calc.align = "none"
    /\ calc' = [calc EXCEPT !.align = typeAlign(calc.v, _layout)]
    /\ UNCHANGED <<stage, assertsEnabled, pc, ret, _tok, uniformBlock, block, _layout,
                   _shaderStruct, catalog, fed, hist, lookup, gen>>

\* generateSrc, for a member of a block: memberSize = typeSize(v)
TypeSize ==
    /\ pc = "members"
    /\ calc.size = -1
    /\ calc' = [calc EXCEPT !.size = typeSize(calc.v, _layout)]
    /\ UNCHANGED <<stage, assertsEnabled, pc, ret, _tok, uniformBlock, block, _layout,
                   _shaderStruct, catalog, fed, hist, lookup, gen>>

\* generateSrc, for a member of a block: typePadding(v, paddingCnt)
TypePadding ==
    /\ pc = "members"
    /\ calc.padding = "none"
    /\ calc' = [calc EXCEPT !.padding = typePadding(calc.v, 0, _layout).text]
    /\ UNCHANGED <<stage, assertsEnabled, pc, ret, _tok, uniformBlock, block, _layout,
                   _shaderStruct, catalog, fed, hist, lookup, gen>>

NextCalc == TypeAlign \/ TypeSize \/ TypePadding

SpecCalc == InitCalc /\ [][NextCalc]_vars

\* the keywords of the catalog
Keywords == {cTypes[i].glsltype : i \in 1..MAX}

\* two keywords of the catalog, before they are looked up
InitLookup ==
    /\ stage = "lookup"
    /\ assertsEnabled \in BOOLEAN
    /\ pc = "getType"
    /\ ret = "true"
    /\ _tok = NoTokens
    /\ uniformBlock = FALSE
    /\ block = NoBlock
    /\ _layout = DefaultLayout
    /\ _shaderStruct = NoStruct
    /\ catalog = "none"
    /\ fed = 0
    /\ hist = NoHist
    /\ calc = NoCalc
    /\ \E k1 \in Keywords, k2 \in Keywords :
          lookup = [NoLookup EXCEPT !.k1 = k1, !.k2 = k2]
    /\ gen = NoGen

\* getType(k1), then getType(k2)
GetType ==
    /\ pc = "getType"
    /\ lookup.t2 = "none"
    /\ lookup' = IF lookup.t1 = "none"
                 THEN [lookup EXCEPT !.t1 = getType(lookup.k1, assertsEnabled).type]
                 ELSE [lookup EXCEPT !.t2 = getType(lookup.k2, assertsEnabled).type]
    /\ UNCHANGED <<stage, assertsEnabled, pc, ret, _tok, uniformBlock, block, _layout,
                   _shaderStruct, catalog, fed, hist, calc, gen>>

NextLookup == GetType
SpecLookup == InitLookup /\ [][NextLookup]_vars

Next == ParseCall \/ Feed \/ ParsePass \/ ParseReturn \/ NextStage \/ GenerateSrc

Spec == Init /\ [][Next]_vars
SpecError == InitError /\ [][Next]_vars
SpecLayout == InitLayout /\ [][Next]_vars
SpecBlock == InitBlock /\ [][Next]_vars
SpecTrunc == InitTrunc /\ [][Next]_vars
SpecKeys == InitKeys /\ [][Next]_vars
SpecTerm == InitTerm /\ [][Next]_vars

(***************************************************************************)
(* Properties                                                              *)
(***************************************************************************)
\* a step that is one pass of the scanner loop
IsPass == pc = "loop" /\ hasNext(_tok)

NoDupNames(list) ==
    \A i, j \in 1..Len(list) : i # j => list[i].name # list[j].name

\* every entry of the list is still there, at its place, in the next state
Kept(l) ==
    /\ Len(_shaderStruct'[l]) >= Len(_shaderStruct[l])
    /\ \A i \in 1..Len(_shaderStruct[l]) : _shaderStruct'[l][i] = _shaderStruct[l][i]

\* C1: in every state no two Variables of one of the lists attributes,
\* varyings, outs, uniforms have the same name, and no step changes or removes
\* an entry of these lists (a declaration of a name that is present is skipped
\* and the entry of that name keeps its type and arraySize).
C1_NoDuplicateNames ==
    [][\A l \in Lists : /\ NoDupNames(_shaderStruct[l])
                        /\ NoDupNames(_shaderStruct'[l])
                        /\ Kept(l)]_vars

\* a declaration was rejected as a duplicate of an entry of its list
C1_Witness ==
    /\ hist.ev = "duplicate"
    /\ \E l \in Lists : Len(_shaderStruct[l]) > 0

\* C2: when the scanner is at a declaration keyword at top level, a declaration
\* was scanned before and no layout qualifier was scanned since that
\* declaration's keyword, the Layout record holds the default values.
C2_LayoutDefaultAtDeclaration ==
    (/\ IsPass
     /\ ~uniformBlock
     /\ cur(_tok) \in DeclKeywords
     /\ hist.decl
     /\ ~hist.qual) => _layout = DefaultLayout

\* the keys of `key = N` qualifiers and the flags, with the field each sets
IntKeys == {<<"location", "location">>, <<"offset", "offset">>, <<"index", "index">>,
            <<"binding", "binding">>, <<"xfb_buffer", "transformFeedbackBuffer">>,
            <<"xfb_offset", "transformFeedbackOffset">>,
            <<"vertices", "tesselationVertices">>,
            <<"max_vertices", "maxGeometryVertices">>}
FlagKeys == {<<"origin_upper_left", "originUpperLeft">>,
             <<"pixel_center_integer", "pixelCenterInteger">>,
             <<"early_fragment_tests", "earlyFragmentTests">>}

\* the places of the key k among the tokens lo..hi of the stream (a token
\* after `=` is a value, not a key)
KeyAt(k, lo, hi) == {i \in lo..hi : _tok.toks[i] = k /\ _tok.toks[i - 1] # "="}
LastOf(S) == CHOOSE i \in S : \A j \in S : j <= i

\* C3: a pass that scans a well-formed `layout ( ... )` at top level leaves in
\* every field the value of the last `key = N` (or flag) of this qualifier that
\* names the field, and the value the field had before when the qualifier does
\* not name it; a pass that scans another token and appends no declaration and
\* closes no block, and every other step, leaves the record as it is.
C3_LayoutsMerge ==
    [][LET lo == _tok.pos + 3
           hi == _tok'.pos - 1
           modes == KeyAt("std140", lo, hi) \cup KeyAt("std430", lo, hi)
       IN  /\ (IsPass /\ cur(_tok) = "layout" /\ hist'.ev = "layout") =>
                 /\ \A kf \in IntKeys :
                       _layout'[kf[2]] =
                           IF KeyAt(kf[1], lo, hi) = {} THEN _layout[kf[2]]
                           ELSE toInt(_tok.toks[LastOf(KeyAt(kf[1], lo, hi)) + 2])
                 /\ \A kf \in FlagKeys :
                       _layout'[kf[2]] = (_layout[kf[2]] \/ KeyAt(kf[1], lo, hi) # {})
                 /\ _layout'.blockLayout =
                       IF modes = {} THEN _layout.blockLayout
                       ELSE _tok.toks[LastOf(modes)]
           /\ (~IsPass \/ (cur(_tok) # "layout"
                            /\ hist'.ev \notin {"append", "unknownappend", "blockclose",
                                                "blockassert"}))
                 => _layout' = _layout]_vars

\* two qualifiers were scanned one after the other and no declaration has
\* consumed them: location comes from the first, binding from the second
C3_Witness ==
    /\ hist.ev = "layout"
    /\ _layout.location = 2
    /\ _layout.binding = 1

\* the list the claim names for a keyword, "" for no list
C4_Target(k, vertex) ==
    IF k = "$out" THEN (IF vertex THEN "varyings" ELSE "outs")
    ELSE IF k = "$in" THEN (IF vertex THEN "attributes" ELSE "")
    ELSE "uniforms"

\* C4: a pass that scans `$in`, `$out` or `uniform` at top level before a type
\* and a name, and comes back to the loop, changes no list but the one the
\* claim names for the keyword and the stage; that list gets the declared name
\* as a new last entry unless the name is in it.
C4_StageRouting ==
    [][(/\ IsPass
        /\ ~uniformBlock
        /\ cur(_tok) \in {"$in", "$out", "uniform"}
        /\ Len(_tok.toks) >= _tok.pos + 3
        /\ _tok.toks[_tok.pos + 3] # "{"
        /\ pc' = "loop") =>
         LET target == C4_Target(cur(_tok), stage = "vertex")
             name == _tok.toks[_tok.pos + 3]
         IN  /\ \A l \in Lists \ {target} : _shaderStruct'[l] = _shaderStruct[l]
             /\ _shaderStruct'.uniformBlocks = _shaderStruct.uniformBlocks
             /\ target # "" =>
                   LET old == _shaderStruct[target]
                       new == _shaderStruct'[target]
                   IN  IF \E i \in 1..Len(old) : old[i].name = name
                       THEN new = old
                       ELSE /\ Len(new) = Len(old) + 1
                            /\ SubSeq(new, 1, Len(old)) = old
                            /\ new[Len(new)].name = name]_vars

\* the output marker was routed both ways and the input marker to attributes
C4_Witness ==
    /\ Len(_shaderStruct.outs) > 0
    /\ Len(_shaderStruct.varyings) > 0
    /\ Len(_shaderStruct.attributes) > 0

\* the Type a catalog keyword stands for
TypeOfKeyword(k) == cTypes[CHOOSE i \in 1..MAX : cTypes[i].glsltype = k].type
IsKeyword(k) == \E i \in 1..MAX : cTypes[i].glsltype = k

\* the members that the body of a block declares, read from the token at i:
\* `type name ;` and `type name [ N ] ;` up to the closing brace
RECURSIVE C5_Members(_, _)
C5_Members(toks, i) ==
    IF i + 2 > Len(toks) \/ toks[i] = "}" THEN <<>>
    ELSE IF toks[i + 2] = "["
    THEN <<Variable(TypeOfKeyword(toks[i]), toks[i + 1],
                    IF toInt(toks[i + 3]) = 0 THEN -1 ELSE toInt(toks[i + 3]))>>
         \o C5_Members(toks, i + 6)
    ELSE <<Variable(TypeOfKeyword(toks[i]), toks[i + 1], 0)>> \o C5_Members(toks, i + 3)

\* the stream at hand is a uniform block `uniform Name { ... } ;`
C5_IsBlock(toks) == Len(toks) >= 5 /\ toks[1] = "uniform" /\ toks[3] = "{"

\* C5: while and after the scanner scans `uniform Name { d1 ... dn } ;` the
\* process is not stopped and parse has not returned false, and once the
\* scanner is past the `;` the last UniformBlock of the model is Name with the
\* members d1..dn in the order of their declarations.
C5_BlockMembers ==
    (/\ pc \in {"loop", "returned", "aborted"}
     /\ C5_IsBlock(_tok.toks)
     /\ _tok.pos > 0) =>
        /\ pc # "aborted"
        /\ ~(pc = "returned" /\ ret = "false")
        /\ ~hasNext(_tok) =>
              LET ub == _shaderStruct.uniformBlocks IN
              /\ Len(ub) > 0
              /\ ub[Len(ub)] = [name |-> _tok.toks[2],
                                members |-> C5_Members(_tok.toks, 4)]

\* the unit and the component counts the size rule names; the count of a
\* 3-component vector other than vec3 is the catalog's 3 or the rounded 4
C6_Unit(t) == IF t \in {"DOUBLE", "DVEC2", "DVEC3", "DVEC4"} THEN 8 ELSE 4
Vec2Types == {"VEC2", "DVEC2", "IVEC2", "UVEC2", "BVEC2"}
Vec3Types == {"VEC3", "DVEC3", "IVEC3", "UVEC3", "BVEC3"}
Vec4Types == {"VEC4", "DVEC4", "IVEC4", "UVEC4", "BVEC4"}
C6_Components(t) ==
    IF t = "MAT2" THEN {4}
    ELSE IF t = "MAT3" THEN {9}
    ELSE IF t \in {"MAT4", "MAT3X4", "MAT4X3"} THEN {16}
    ELSE IF t = "VEC3" THEN {4}
    ELSE IF t \in Vec3Types THEN {3, 4}
    ELSE IF t \in Vec4Types THEN {4}
    ELSE IF t \in Vec2Types THEN {2}
    ELSE {1}
C6_Factor(v) == IF v.arraySize > 0 THEN v.arraySize ELSE 1

C7_VectorComponents ==
    (calc.size # -1 /\ calc.v.type \in Vec2Types \cup Vec3Types \cup Vec4Types) =>
        calc.size = (IF calc.v.type \in Vec2Types THEN 2 ELSE 4)
                    * C6_Unit(calc.v.type) * C6_Factor(calc.v)

\* C8: the alignment directive computed for a member is 16 bytes for every
\* vector type of every scalar kind, 4 bytes for float and double, and none
\* for every other type.
C8_AlignmentDirective ==
    calc.align # "none" =>
        calc.align = IF calc.v.type \in Vec2Types \cup Vec3Types \cup Vec4Types
                     THEN "alignas(16) "
                     ELSE IF calc.v.type \in {"FLOAT", "DOUBLE"} THEN "alignas(4) "
                     ELSE ""

\* C9: once the scanner has scanned `uniform T x` with T in no entry of the
\* type table, parse has returned false (the process is not stopped, the scan
\* does not go on), the list of uniforms has no entry x, and every entry the
\* model had when the stage's parse was called is unchanged.
C9_UnknownTypeFails ==
    (/\ pc \in {"loop", "returned", "aborted"}
     /\ Len(_tok.toks) >= 3
     /\ _tok.toks[1] = "uniform"
     /\ ~IsKeyword(_tok.toks[2])
     /\ _tok.toks[3] # "{"
     /\ _tok.pos >= 3) =>
        /\ pc = "returned"
        /\ ret = "false"
        /\ \A i \in 1..Len(_shaderStruct.uniforms) :
              _shaderStruct.uniforms[i].name # _tok.toks[3]
        /\ \A l \in Lists :
              /\ Len(_shaderStruct[l]) >= Len(hist.before[l])
              /\ SubSeq(_shaderStruct[l], 1, Len(hist.before[l])) = hist.before[l]

\* C10: once the scanner has scanned `uniform T x [ S ] ;` with S empty, not a
\* number or zero, the process is not stopped, parse has not returned false
\* and the list of uniforms has the entry x with arraySize -1.
C10_UnresolvedArraySize ==
    (/\ pc \in {"loop", "returned", "aborted"}
     /\ Len(_tok.toks) >= 5
     /\ _tok.toks[1] = "uniform"
     /\ _tok.toks[4] = "["
     /\ (_tok.toks[5] = "]" \/ toInt(_tok.toks[5]) = 0)
     /\ _tok.pos > 0) =>
        /\ pc # "aborted"
        /\ ~(pc = "returned" /\ ret = "false")
        /\ \E i \in 1..Len(_shaderStruct.uniforms) :
              /\ _shaderStruct.uniforms[i].name = _tok.toks[3]
              /\ _shaderStruct.uniforms[i].arraySize = -1

\* C11: when the stream has ended while the scanner was inside a uniform
\* block, parse has returned false (the process is not stopped) and the model
\* has no uniform block of the name of the unfinished block.
C11_UnterminatedBlockFails ==
    (/\ pc \in {"returned", "aborted"}
     /\ stage \in {"fragment", "geometry", "compute", "vertex"}
     /\ uniformBlock
     /\ ~hasNext(_tok)) =>
        /\ pc = "returned"
        /\ ret = "false"
        /\ \A i \in 1..Len(_shaderStruct.uniformBlocks) :
              _shaderStruct.uniformBlocks[i].name # block.name

\* C12: after a parse has returned false the driver takes no further step: no
\* stage is parsed and generateSrc is not called.
C12_FailureAbortsRun ==
    [][(pc = "returned" /\ ret = "false") =>
          (stage' = stage /\ pc' = pc /\ gen' = gen)]_vars

C14_ParseIdempotent ==
    (/\ pc = "returned"
     /\ stage \in {"geometry", "compute"}
     /\ hist.cur # <<>>
     /\ hist.cur = hist.prev) =>
        \A l \in Lists \cup {"uniformBlocks"} : _shaderStruct[l] = hist.before[l]

\* C16: when the last stage has been parsed no two uniform blocks of the model
\* have the same name, and a generation that wrote every file wrote one
\* uniform block file for each block name.
C16_UniqueBlockNames ==
    (pc = "returned" /\ stage \in {"vertex", "generated"}) =>
        /\ NoDupNames(_shaderStruct.uniformBlocks)
        /\ (gen.done /\ gen.exitCode = 0) =>
              Len(gen.files) - 1 =
                  Cardinality({_shaderStruct.uniformBlocks[i].name :
                                  i \in 1..Len(_shaderStruct.uniformBlocks)})

\* C17: the members of the block being scanned, and of every uniform block
\* of the model, have pairwise different names.
C17_UniqueMemberNames ==
    /\ NoDupNames(block.members)
    /\ \A i \in 1..Len(_shaderStruct.uniformBlocks) :
          NoDupNames(_shaderStruct.uniformBlocks[i].members)

\* C18: every uniform block of the model has at least one member.
C18_BlockNotEmpty ==
    \A i \in 1..Len(_shaderStruct.uniformBlocks) :
        Len(_shaderStruct.uniformBlocks[i].members) >= 1

\* the keys of a layout qualifier that take a value
C19_ValueKeys == {k[1] : k \in IntKeys} \cup {"primitive_type"}

\* a layout qualifier that ends before its `)` or has a value key that no `=`
\* follows
C19_Malformed(toks) ==
    \/ toks[Len(toks)] # ")"
    \/ \E i \in 1..Len(toks) :
          /\ toks[i] \in C19_ValueKeys
          /\ (i = Len(toks) \/ toks[i + 1] # "=")

\* C19: the pass that scans a malformed layout qualifier ends with parseLayout
\* having returned false; the process is not stopped.
C19_LayoutFailureReturned ==
    [][(/\ pc = "loop"
        /\ hasNext(_tok)
        /\ cur(_tok) = "layout"
        /\ C19_Malformed(_tok.toks)) =>
            (pc' = "loop" /\ hist'.ev = "layoutfailed")]_vars

\* the sum of the computed sizes of the members of a block
RECURSIVE C20_SumSizes(_, _)
C20_SumSizes(members, lay) ==
    IF members = <<>> THEN 0
    ELSE typeSize(Head(members), lay) + C20_SumSizes(Tail(members), lay)

\* the block of a float a and a vec3 b
C20_Example ==
    [name |-> "Blk",
     members |-> <<Variable("FLOAT", "a", 0), Variable("VEC3", "b", 0)>>]

\* the text generated for block i of the model, in the file of that block
C20_Text(i) == gen.files[i].text.uniformbuffers[i]

C21_LayoutDefaultAtParseStart ==
    (pc = "loop" /\ hist.ev = "call") => _layout = DefaultLayout

\* C22: when the scanner has come to the end of a `uniform` declaration that a
\* `layout` keyword with no `(` after it precedes (parseLayout has failed with
\* tokens left), the declared name is in the uniforms.
C22_DeclarationAfterFailedLayout ==
    (/\ pc \in {"loop", "returned"}
     /\ Len(_tok.toks) >= 5
     /\ _tok.toks[1] = "layout"
     /\ _tok.toks[2] # "("
     /\ "uniform" \in {_tok.toks[i] : i \in 2..3}
     /\ ~hasNext(_tok)) =>
        \E i \in 1..Len(_shaderStruct.uniforms) :
            _shaderStruct.uniforms[i].name = _tok.toks[Len(_tok.toks) - 1]

\* the field a `key = N` key sets, and the flags, as the GLSL grammar spells them
C23_IntField(k) ==
    IF k = "components" THEN "components"
    ELSE (CHOOSE kf \in IntKeys : kf[1] = k)[2]

C23_IntKeys == {kf[1] : kf \in IntKeys} \cup {"components"}
C23_Flags == {kf[1] : kf \in FlagKeys}
C23_Modes == {"std140", "std430"}

\* the scanner is at the `layout` of a qualifier of n tokens
C23_AtQualifier(n) ==
    /\ IsPass
    /\ _tok.pos = 0
    /\ Len(_tok.toks) = n
    /\ _tok.toks[1] = "layout"
    /\ _tok.toks[2] = "("
    /\ _tok.toks[n] = ")"

\* C23: the pass that scans `layout ( key = N )` sets the field of the key to
\* N, the pass that scans `layout ( flag )` sets the field of the flag, and
\* every other field of the Layout record is left as it was.
C23_KeySetsOwnField ==
    [][/\ (C23_AtQualifier(6) /\ _tok.toks[3] \in C23_IntKeys /\ _tok.toks[4] = "=") =>
             _layout' = [_layout EXCEPT ![C23_IntField(_tok.toks[3])] = toInt(_tok.toks[5])]
       /\ (C23_AtQualifier(4) /\ _tok.toks[3] \in C23_Flags) =>
             _layout' = [_layout EXCEPT
                            ![(CHOOSE kf \in FlagKeys : kf[1] = _tok.toks[3])[2]] = TRUE]
       /\ (C23_AtQualifier(4) /\ _tok.toks[3] \in C23_Modes) =>
             _layout' = [_layout EXCEPT !.blockLayout = _tok.toks[3]]]_vars

\* the keys and flags of a layout qualifier, and `components` as parseLayout
\* spells it
C24_Known ==
    C23_IntKeys \cup C23_Flags \cup C23_Modes \cup {"compontents", "primitive_type", ")"}

\* C24: the pass that scans `layout ( key )` or `layout ( key = value )` with
\* a key that parseLayout does not know leaves the Layout record as it was,
\* parseLayout returns true and the cursor is behind the `)`.
C24_UnknownKeyIgnored ==
    [][(/\ (C23_AtQualifier(4) \/ (C23_AtQualifier(6) /\ _tok.toks[4] = "="))
        /\ _tok.toks[3] \notin C24_Known) =>
            /\ _layout' = _layout
            /\ hist'.ev = "layout"
            /\ pc' = "loop"
            /\ _tok'.pos = Len(_tok.toks)]_vars

\* C25: every pass over a token of a top-level `buffer` declaration, from the
\* keyword to the end of the declaration, leaves the four lists and the
\* uniform blocks as they are and comes back to the loop at top level.
C25_BufferAddsNothing ==
    [][(/\ IsPass
        /\ ~uniformBlock
        /\ \E k \in 1..Len(_tok.toks) :
              _tok.toks[k] = "buffer" /\ _tok.pos >= k - 1) =>
            /\ _shaderStruct' = _shaderStruct
            /\ pc' = "loop"
            /\ ~uniformBlock'
            /\ _tok'.pos > _tok.pos]_vars

\* a declaration was appended after a `buffer` declaration of the same stage
C25_Witness ==
    /\ hist.ev = "append"
    /\ Len(hist.cur) = 2
    /\ hist.cur[1][1] = "buffer"
    /\ hist.before = NoStruct
    /\ Len(_shaderStruct.uniforms) = 1
    /\ _shaderStruct.uniformBlocks = <<>>

\* the stages that may follow a stage
C26_Order ==
    {<<"fragment", "geometry">>, <<"fragment", "compute">>, <<"fragment", "vertex">>,
     <<"geometry", "compute">>, <<"geometry", "vertex">>, <<"compute", "vertex">>,
     <<"vertex", "generated">>}

\* the entries of the name in the list
C26_Entries(list, name) == {i \in 1..Len(list) : list[i].name = name}

\* C26: the first stage is the fragment stage and a stage is followed by a
\* later one of the order fragment, geometry, compute, vertex; all stages
\* write into the one model, in which every entry that was there when the
\* parse of the stage was called is at its place unchanged, and is the only
\* entry of its name in its list whatever the stage declares.
C26_EarliestStageKept ==
    [][/\ (stage' # stage => <<stage, stage'>> \in C26_Order)
       /\ (hist.ev = "none" => stage = "fragment")
       /\ (hist'.ev = "call" => hist'.before = _shaderStruct)
       /\ \A l \in Lists \cup {"uniformBlocks"} :
             /\ Len(_shaderStruct'[l]) >= Len(hist'.before[l])
             /\ \A i \in 1..Len(hist'.before[l]) :
                   _shaderStruct'[l][i] = hist'.before[l][i]
       /\ \A l \in Lists : \A i \in 1..Len(hist'.before[l]) :
             C26_Entries(_shaderStruct'[l], hist'.before[l][i].name) = {i}]_vars

\* the vertex stage declares the uniform a as a vec3 array; the uniforms keep
\* the float a of an earlier stage
C26_Witness ==
    /\ stage = "vertex"
    /\ hist.ev = "duplicate"
    /\ _tok.toks = <<"uniform", "vec3", "a", "[", "2", "]", ";">>
    /\ hist.before.uniforms = <<Variable("FLOAT", "a", 0)>>
    /\ _shaderStruct.uniforms = <<Variable("FLOAT", "a", 0)>>

\* C27: the process is never stopped by a next() of parse at the end of the
\* stream: not by the read of a name, not by a read of the array suffix and
\* not by the read of the `;` after the `}` of a block.
C27_NoReadPastEnd ==
    ~(/\ pc = "aborted"
      /\ hist.ev \in {"pastend", "badarray", "blockassert"}
      /\ ~hasNext(_tok))

\* C28: every pass of the scanner loop, the pass that steps back inside a
\* uniform block included, leaves the cursor further along the stream than it
\* found it; a parseLayout that returns true has stopped behind the first `)`
\* that is not the value of a key, one that returns false has stopped at the
\* end of the stream or at the token that is not `(`. The cursor is never
\* beyond the end of the stream, so the passes over a finite stream are finitely
\* many.
C28_ParseTerminates ==
    [][/\ _tok'.pos <= Len(_tok'.toks)
       /\ IsPass => _tok'.pos > _tok.pos /\ _tok'.toks = _tok.toks
       /\ (IsPass /\ ~uniformBlock /\ cur(_tok) = "layout") =>
             /\ hist'.ev = "layout" =>
                   /\ _tok.toks[_tok'.pos] = ")"
                   /\ KeyAt(")", _tok.pos + 3, _tok'.pos - 1) = {}
             /\ hist'.ev = "layoutfailed" =>
                   \/ ~hasNext(_tok')
                   \/ _tok.toks[_tok.pos + 2] # "("]_vars

\* a pass inside a uniform block has stepped back and read a member
C28_Witness ==
    /\ uniformBlock
    /\ hist.ev = "member"
    /\ Len(block.members) = 2
    /\ _tok.pos = 19

\* C29: the file generated for block i of the model holds one structure
\* definition and buffer member, those of block i, and one shutdown line, that
\* of block i.
C29_OwnBlockOnly ==
    \A i \in 1..Len(gen.files) :
        i <= Len(_shaderStruct.uniformBlocks) =>
            /\ Len(gen.files[i].text.uniformbuffers) = 1
            /\ gen.files[i].text.uniformbuffers[1].struct =
                   convertName(_shaderStruct.uniformBlocks[i].name, TRUE)
            /\ gen.files[i].text.shutdown =
                   <<convertName(_shaderStruct.uniformBlocks[i].name, FALSE)>>

\* the mode of the layout qualifier of the declaration of the block in the
\* inputs of the run: std430 when the qualifier names it, std140 otherwise
C30_DeclaredMode(name) ==
    IF \E c \in Chunks(catalog) : \E k \in 1..(Len(c) - 1) :
          /\ c[k] = "uniform"
          /\ c[k + 1] = name
          /\ \E j \in 1..k : c[j] = "std430"
    THEN "std430" ELSE "std140"

\* C30: the mode named in the text generated for a uniform block is the mode
\* of the layout qualifier the block was declared with.
C30_OwnBlockLayout ==
    \A i \in 1..Len(gen.files) :
        i <= Len(_shaderStruct.uniformBlocks) =>
            C20_Text(i).layout = C30_DeclaredMode(_shaderStruct.uniformBlocks[i].name)

====
